---------------------------- MODULE Spec2Model ----------------------------
(***************************************************************************)
(* A model of awslaunch (src/awslaunch.py): one invocation of main, from   *)
(* the resolution of the profiles, the account, the role and the actions   *)
(* to the dispatch of the actions assume, browser, save, url and role.     *)
(*                                                                         *)
(* Text is modelled as a sequence of tokens.  A token is either one of the *)
(* punctuation characters the program treats specially (" ", "/", "&",     *)
(* "_", "-", ...) or a maximal run of other characters.  Python's None is  *)
(* the token None; an absent dictionary key is a key outside the DOMAIN.   *)
(***************************************************************************)
EXTENDS Integers, Sequences, FiniteSets, TLC

VARIABLES
    args,               \* the parsed command line (argparse namespace)
    config,             \* the loaded ~/.awslaunch.yaml, a dict
    file,               \* ~/.aws/config: section name -> (key -> value)
    pc,                 \* position of main
    err,                \* the exception that ended main, or None
    source_profile,     \* main's local, line 138
    organizations_profile,  \* main's local, line 140
    account_choices,    \* main's local, line 145: label -> account
    account,            \* main's local, line 148
    role_name,          \* main's local, line 151
    role_arn,           \* main's local, line 156
    url,                \* main's local, line 157
    actions,            \* main's local, line 158: a list of action names
    log                 \* every externally visible effect, in order

vars == <<args, config, file, pc, err, source_profile, organizations_profile,
          account_choices, account, role_name, role_arn, url, actions, log>>

-----------------------------------------------------------------------------
(* Bounds of the model *)

\* The most entries the multi-select picker returns in one selection.
MaxPicked == 2

-----------------------------------------------------------------------------
(* Values *)

None == "<None>"
NoneText == <<None>>

\* Python truthiness of an optional string: None and "" are false.
Truthy(s) == s # None /\ s # ""
TruthyText(t) == t # NoneText /\ t # <<>>

CMD_END == ";"

\* The keys of the ACTIONS dict in declaration order.
ACTION_KEYS == <<"assume", "browser", "save", "url", "role">>

ActionNames == {ACTION_KEYS[i] : i \in 1..Len(ACTION_KEYS)}

Range(s) == {s[i] : i \in 1..Len(s)}

\* dict.get(key, default)
DictGet(d, key, default) == IF key \in DOMAIN d THEN d[key] ELSE default

\* int() of the numeric strings the model uses.
IntOf(s) ==
    CASE s = "111" -> 111
      [] s = "222" -> 222
      [] s = "999" -> 999
      [] s = "2" -> 2

\* str.lower() of a token.
Lower(tok) ==
    CASE tok = "Eng" -> "eng"
      [] tok = "Prod" -> "prod"
      [] tok = "Ops" -> "ops"
      [] tok = "A" -> "a"
      [] tok = "B" -> "b"
      [] tok = "C" -> "c"
      [] tok = "R" -> "r"
      [] tok = "OrganizationAccountAccessRole" -> "organizationaccountaccessrole"
      [] OTHER -> tok

\* The order of role names under Python's sorted() (code point order).
RoleRank(r) ==
    CASE r = "A" -> 1
      [] r = "B" -> 2
      [] r = "C" -> 3
      [] r = "OrganizationAccountAccessRole" -> 4
      [] r = "R" -> 5

Sorted(roles) == SortSeq(roles, LAMBDA a, b : RoleRank(a) < RoleRank(b))

\* The characters re.sub replaces in generate_save_profile_name, as tokens
\* (the grave accent is written GRAVE).
SlugReplaced == {"!", "@", "#", "$", "%", "^", "&", "*", "(", ")", "[", "]",
                 "{", "}", ";", ":", ",", ".", "/", "<", ">", "?", "|", "GRAVE",
                 "~", "=", "_", "+", " "}

\* urllib.parse.quote_plus of a token.
QuotePlusToken(tok) ==
    CASE tok = " " -> "+"
      [] tok = "&" -> "%26"
      [] tok = "/" -> "%2F"
      [] tok = "(" -> "%28"
      [] tok = ")" -> "%29"
      [] OTHER -> tok

-----------------------------------------------------------------------------
(* The pure functions of the program *)

\* generate_role_arn: f"arn:aws:iam::{account_id}:role/{role_name}"
generate_role_arn(account_id, rname) ==
    <<"arn:aws:iam::", account_id, ":role", "/", rname>>

\* generate_url: only the display name goes through quote_plus.
generate_url(rname, account_id, display_name) ==
    <<"https://signin.aws.amazon.com/switchrole?roleName=", rname,
      "&account=", account_id, "&displayName=">>
    \o [i \in 1..Len(display_name) |-> QuotePlusToken(display_name[i])]

\* generate_save_profile_name: lower-case, then replace each listed character.
generate_save_profile_name(account_display_name, rname) ==
    LET text == account_display_name \o <<"-", rname>>
        lowered == [i \in 1..Len(text) |-> Lower(text[i])]
    IN  [i \in 1..Len(lowered) |->
            IF lowered[i] \in SlugReplaced THEN "-" ELSE lowered[i]]

\* re.findall(r".+/(.+)", caller_arn): the greedy ".+" takes the last "/"
\* that has at least one token before it and at least one after it; the
\* result is the list of the captured groups (empty when nothing matches).
FindallLastSegment(caller_arn) ==
    LET slashes == {i \in 2..(Len(caller_arn) - 1) : caller_arn[i] = "/"}
    IN  IF slashes = {} THEN <<>>
        ELSE LET last == CHOOSE i \in slashes : \A j \in slashes : j <= i
             IN  <<SubSeq(caller_arn, last + 1, Len(caller_arn))>>

\* The outcome of sts_client.get_caller_identity(): a response with an Arn,
\* or a raised exception.
IdentityFailed == [ok |-> FALSE, Arn |-> <<>>]
IdentityOk(arn) == [ok |-> TRUE, Arn |-> arn]

DefaultSessionName == <<"awslaunch">>

\* generate_session_name without the try/except: what the lookup raises, and
\* the IndexError of [0], leave the function.
generate_session_name_NoCatch(identity, cfg) ==
    LET session_name == DictGet(cfg, "role_session_name", NoneText)
    IN  IF TruthyText(session_name)
        THEN [name |-> session_name, looked_up |-> FALSE, raised |-> None]
        ELSE IF ~identity.ok
        THEN [name |-> <<>>, looked_up |-> TRUE, raised |-> "ClientError"]
        ELSE LET found == FindallLastSegment(identity.Arn)
             IN  IF found = <<>>
                 THEN [name |-> <<>>, looked_up |-> TRUE, raised |-> "IndexError"]
                 ELSE [name |-> found[1], looked_up |-> TRUE, raised |-> None]

\* generate_session_name(sts_client, config, default="awslaunch"), given the
\* outcome `identity` the lookup would have.  Returns the name, whether
\* get_caller_identity was called, and the exception that leaves the
\* function: the bare except catches whatever the try block raises, also
\* the IndexError of [0] on an empty findall result.
generate_session_name(identity, cfg) ==
    LET session_name == DictGet(cfg, "role_session_name", NoneText)
    IN  IF TruthyText(session_name)
        THEN [name |-> session_name, looked_up |-> FALSE, raised |-> None]
        ELSE IF ~identity.ok
        THEN [name |-> DefaultSessionName, looked_up |-> TRUE, raised |-> None]
        ELSE LET found == FindallLastSegment(identity.Arn)
             IN  IF found = <<>>
                 THEN [name |-> DefaultSessionName, looked_up |-> TRUE, raised |-> None]
                 ELSE [name |-> found[1], looked_up |-> TRUE, raised |-> None]

SecondsPerHour == 3600

\* The keyword arguments generate_session_credentials_commands passes to
\* sts_client.assume_role.
AssumeRoleKwargs(rarn, session_name, duration_hours, external_id) ==
    LET kwargs == [k \in {"RoleArn", "RoleSessionName", "DurationSeconds"} |->
                     CASE k = "RoleArn" -> [text |-> rarn, num |-> 0, str |-> ""]
                       [] k = "RoleSessionName" -> [text |-> session_name, num |-> 0, str |-> ""]
                       [] k = "DurationSeconds" ->
                            [text |-> <<>>, num |-> SecondsPerHour * duration_hours, str |-> ""]]
    IN  IF Truthy(external_id)
        THEN [k \in DOMAIN kwargs \cup {"ExternalId"} |->
                 IF k = "ExternalId"
                 THEN [text |-> <<>>, num |-> 0, str |-> external_id]
                 ELSE kwargs[k]]
        ELSE kwargs

\* The three statements generate_session_credentials_commands returns.
CredentialCommands(credentials) ==
    << <<"export AWS_ACCESS_KEY_ID=\"", credentials.AccessKeyId, "\"">>,
       <<"export AWS_SECRET_ACCESS_KEY=\"", credentials.SecretAccessKey, "\"">>,
       <<"export AWS_SESSION_TOKEN=\"", credentials.SessionToken, "\"">> >>

-----------------------------------------------------------------------------
(* Dictionaries and the credentials-config file *)

EmptyDict == [k \in {} |-> <<>>]

\* dict.__setitem__
DictSet(d, key, value) ==
    [k \in DOMAIN d \cup {key} |-> IF k = key THEN value ELSE d[k]]

\* Keys of the "roles" mapping of the configuration: YAML integers and the
\* string "_".
IntKey(n) == <<"int", n>>
StrKey(str) == <<"str", str>>

\* f"profile {name}"
SectionName(name) == <<"profile ">> \o name

\* save_profile that replaces an existing section instead of refusing it.
save_profile_Overwrites(f, src_profile, rarn, session_name, profile_name) ==
    LET section == SectionName(profile_name)
        source == SectionName(src_profile)
        added == DictSet(f, section, EmptyDict)
    IN  IF source \notin DOMAIN added
        THEN [raised |-> "KeyError", written |-> FALSE, file |-> f]
        ELSE LET s1 == DictSet(added[source], "source_profile", src_profile)
                 s2 == DictSet(s1, "role_session_name", session_name)
                 s3 == DictSet(s2, "role_arn", rarn)
             IN  [raised |-> None, written |-> TRUE, file |-> DictSet(added, section, s3)]

\* save_profile that also stores a session token in the new section.
save_profile_WritesToken(f, src_profile, rarn, session_name, profile_name) ==
    LET section == SectionName(profile_name)
        source == SectionName(src_profile)
    IN  IF section \in DOMAIN f
        THEN [raised |-> "DuplicateSectionError", written |-> FALSE, file |-> f]
        ELSE IF source \notin DOMAIN f
        THEN [raised |-> "KeyError", written |-> FALSE, file |-> f]
        ELSE LET s1 == DictSet(f[source], "source_profile", src_profile)
                 s2 == DictSet(s1, "role_session_name", session_name)
                 s3 == DictSet(s2, "role_arn", rarn)
                 s4 == DictSet(s3, "aws_session_token", <<"TOKEN">>)
             IN  [raised |-> None, written |-> TRUE, file |-> DictSet(f, section, s4)]

\* save_profile on the parsed content `f` of the file.  `raised` is the
\* exception that ends the call (None when it returns), `written` tells
\* whether the file was opened for writing, `file` is its content afterwards.
save_profile(f, src_profile, rarn, session_name, profile_name) ==
    LET section == SectionName(profile_name)
        source == SectionName(src_profile)
    IN  IF section \in DOMAIN f
        THEN [raised |-> "DuplicateSectionError", written |-> FALSE, file |-> f]
        ELSE LET added == DictSet(f, section, EmptyDict)
             IN  IF source \notin DOMAIN added
                 THEN [raised |-> "KeyError", written |-> FALSE, file |-> f]
                 ELSE LET copied == added[source]
                          s1 == DictSet(copied, "source_profile", src_profile)
                          s2 == DictSet(s1, "role_session_name", session_name)
                          s3 == DictSet(s2, "role_arn", rarn)
                      IN  [raised |-> None, written |-> TRUE,
                           file |-> DictSet(added, section, s3)]

-----------------------------------------------------------------------------
(* The selectors.  `reply` is what the fzf prompt returns: a list, empty   *)
(* when the user aborts.                                                   *)

\* The label of an account in generate_account_choices.
AccountLabel(acct) == acct.DisplayName \o <<" ", "(", acct.Id, ")">>

\* dict([(key, value), ...]) as a list of pairs in insertion order: a later
\* pair with a key already present replaces the value in place.
RECURSIVE DictFromPairs(_)
DictFromPairs(pairs) ==
    IF pairs = <<>> THEN <<>>
    ELSE LET front == DictFromPairs(SubSeq(pairs, 1, Len(pairs) - 1))
             last == pairs[Len(pairs)]
             at == {i \in 1..Len(front) : front[i][1] = last[1]}
         IN  IF at = {} THEN Append(front, last)
             ELSE [i \in 1..Len(front) |-> IF i \in at THEN last ELSE front[i]]

\* generate_account_choices on the Accounts list of the organizations reply.
generate_account_choices(account_display_names, listed) ==
    LET accounts == [i \in 1..Len(listed) |->
                        [Id |-> listed[i].Id, Name |-> listed[i].Name,
                         DisplayName |-> DictGet(account_display_names,
                                                 IntOf(listed[i].Id), listed[i].Name)]]
    IN  DictFromPairs([i \in 1..Len(accounts) |-> <<AccountLabel(accounts[i]), accounts[i]>>])

NoAccount == [Id |-> None, Name |-> <<>>, DisplayName |-> <<>>]

\* choose_account.  `prompted` tells whether the picker ran.
choose_account(choices, account_id, reply) ==
    IF Truthy(account_id)
    THEN LET matching == SelectSeq(choices, LAMBDA pair : pair[2].Id = account_id)
         IN  IF matching = <<>>
             THEN [raised |-> "IndexError", prompted |-> FALSE, account |-> NoAccount]
             ELSE [raised |-> None, prompted |-> FALSE, account |-> matching[1][2]]
    ELSE IF reply = <<>>
         THEN [raised |-> "IndexError", prompted |-> TRUE, account |-> NoAccount]
         ELSE LET hit == SelectSeq(choices, LAMBDA pair : pair[1] = reply[1])
              IN  [raised |-> None, prompted |-> TRUE, account |-> hit[1][2]]

DefaultRoles == <<"OrganizationAccountAccessRole">>

\* The candidates with the wildcard entry taking precedence.
RoleCandidates_WildcardFirst(role_map, account_id) ==
    DictGet(role_map, StrKey("_"),
            DictGet(role_map, IntKey(IntOf(account_id)), DefaultRoles))

\* The candidate list of choose_role_name (lines 96-97).
RoleCandidates(role_map, account_id) ==
    LET default_roles == DictGet(role_map, StrKey("_"), DefaultRoles)
    IN  DictGet(role_map, IntKey(IntOf(account_id)), default_roles)

\* choose_role_name.  `prompted` tells whether the picker ran and `shown`
\* is the list it was given.
choose_role_name(role_map, account_id, a, reply) ==
    IF Truthy(a.role_name)
    THEN [raised |-> None, prompted |-> FALSE, shown |-> <<>>, role |-> a.role_name]
    ELSE LET roles == RoleCandidates(role_map, account_id)
         IN  IF Len(roles) = 1
             THEN [raised |-> None, prompted |-> FALSE, shown |-> <<>>, role |-> roles[1]]
             ELSE IF reply = <<>>
             THEN [raised |-> "IndexError", prompted |-> TRUE,
                   shown |-> Sorted(roles), role |-> None]
             ELSE [raised |-> None, prompted |-> TRUE,
                   shown |-> Sorted(roles), role |-> reply[1]]

\* The action flags given on the command line, in the order of ACTIONS.
PassedActions(a) == SelectSeq(ACTION_KEYS, LAMBDA action : a[action])

\* choose_actions.  The picker's reply is the list of the chosen entries, in
\* the order fzf printed them; each entry maps back to its action.
choose_actions(a, reply) ==
    IF PassedActions(a) # <<>>
    THEN [prompted |-> FALSE, actions |-> PassedActions(a)]
    ELSE [prompted |-> TRUE, actions |-> reply]

\* choose_save_profile_name.  `typed` is the line input() returns.
choose_save_profile_name(a, default, typed) ==
    IF TruthyText(a.save_profile_name)
    THEN [prompted |-> FALSE, name |-> a.save_profile_name]
    ELSE [prompted |-> TRUE, name |-> IF typed # <<>> THEN typed ELSE default]

-----------------------------------------------------------------------------
(* The effects of an invocation *)

\* One externally visible effect.  `by` is the block of main that causes it
\* (an action name, or "main"), `kind` the channel, `text` what is written,
\* shown, asked or answered, `end` the terminator print appends, `req` the
\* keyword arguments of a service call (for the file: the content read or
\* the section written), `ok` whether the call returned normally.
Effect(by, kind, ok, text, end, req) ==
    [by |-> by, kind |-> kind, ok |-> ok, text |-> text, end |-> end, req |-> req]

\* cmd printing with print's default end.
cmd_Newline(by, text) == [by |-> by, kind |-> "stdout", ok |-> TRUE, text |-> text,
                          end |-> "\n", req |-> EmptyDict]

\* cmd(*inputs): print(*inputs, end=CMD_END)
cmd(by, text) == Effect(by, "stdout", TRUE, text, CMD_END, EmptyDict)

\* echo(*s): cmd("echo ", *s); print separates its arguments by a space.
echo(by, text) == cmd(by, <<"echo ", " ">> \o text)

\* msg(*s): print(*s, file=sys.stderr)
msg(by, text) == Effect(by, "stderr", TRUE, text, "\n", EmptyDict)

\* A call of an external collaborator.
Call(by, kind, ok, text, req) == Effect(by, kind, ok, text, "", req)

Quoted(text) == <<"'">> \o text \o <<"'">>

\* The dispatch with the save block moved before the browser block.
NextBlock_SaveBeforeBrowser(block) ==
    CASE block = "assume" -> "save"
      [] block = "save" -> "browser"
      [] block = "browser" -> "url"
      [] block = "url" -> "role"
      [] block = "role" -> "finish"

\* The order in which main tests the actions (lines 162-195).
NextBlock(block) ==
    CASE block = "assume" -> "browser"
      [] block = "browser" -> "save"
      [] block = "save" -> "url"
      [] block = "url" -> "role"
      [] block = "role" -> "finish"

\* The check of line 160 left out.
ActionsEmpty_Never(chosen) == FALSE

\* `if not actions` (line 160)
ActionsEmpty(chosen) == chosen = <<>>

\* The external id main hands to generate_session_credentials_commands: the
\* call at lines 165-170 passes none, so the parameter's default applies.
MainExternalId(a) == ""

DefaultDurationHours == 1

\* int(args.duration_hours or config.get("duration_hours", 1))
DurationHours(a, cfg) ==
    IF Truthy(a.duration_hours) THEN IntOf(a.duration_hours)
    ELSE DictGet(cfg, "duration_hours", DefaultDurationHours)

\* The effects of a generate_session_name call made by block `by`: the
\* identity lookup, with the ARN it answered.
SessionNameEffects(by, sn, identity) ==
    IF sn.looked_up
    THEN <<Call(by, "sts.get_caller_identity", identity.ok, identity.Arn, EmptyDict)>>
    ELSE <<>>

\* The save block asking the broker for credentials as well.
SaveSessionEffects_AssumesRole(sn, identity) ==
    SessionNameEffects("save", sn, identity)
        \o <<Call("save", "sts.assume_role", TRUE, <<>>,
                  AssumeRoleKwargs(role_arn, sn.name, DefaultDurationHours, ""))>>

\* What the save block asks of the broker (line 178): the session name only.
SaveSessionEffects(sn, identity) == SessionNameEffects("save", sn, identity)

-----------------------------------------------------------------------------
(* The inputs and the replies of the environment *)

\* The command lines of the model.  --duration-hours bears on nothing but
\* DurationSeconds, so it is given together with --source-profile.
ArgsSet ==
    {a \in [assume : BOOLEAN, browser : BOOLEAN, save : BOOLEAN, url : BOOLEAN,
            role : BOOLEAN,
            external_id : {"", "ext"},
            role_name : {None, "R"},
            account_id : {None, "111", "999"},
            duration_hours : {None, "2"},
            organizations_profile : {NoneText},
            source_profile : {NoneText, <<"p">>},
            save_profile_name : {NoneText, <<"p">>}] :
        (a.duration_hours = "2") <=> (a.source_profile = <<"p">>)}

ConfigEmpty == EmptyDict

ConfigRoles ==
    [k \in {"roles", "role_session_name"} |->
        IF k = "roles"
        THEN [r \in {StrKey("_"), IntKey(111)} |->
                 IF r = StrKey("_") THEN <<"A">> ELSE <<"B", "C">>]
        ELSE <<"cfg">>]

ConfigFull ==
    [k \in {"roles", "role_session_name", "source_profile", "account_display_names",
            "duration_hours", "organizations_profile"} |->
        CASE k = "roles" ->
                 [r \in {IntKey(111), IntKey(222)} |->
                     IF r = IntKey(111) THEN <<>> ELSE <<"C", "B">>]
          [] k = "role_session_name" -> <<>>
          [] k = "source_profile" -> <<"q">>
          [] k = "account_display_names" -> [n \in {222} |-> <<"Ops", " ", "Prod">>]
          [] k = "duration_hours" -> 3
          [] k = "organizations_profile" -> <<"org">>]

ConfigSet == {ConfigEmpty, ConfigRoles, ConfigFull}

FileEmpty == EmptyDict

FilePQ ==
    [sec \in {SectionName(<<"p">>), SectionName(<<"q">>)} |->
        IF sec = SectionName(<<"p">>)
        THEN [k \in {"region", "role_arn"} |->
                 IF k = "region" THEN <<"us">> ELSE <<"old">>]
        ELSE [k \in {"region", "source_profile"} |->
                 IF k = "region" THEN <<"eu">> ELSE <<"p">>]]

FileSet == {FileEmpty, FilePQ}

\* The reply of organizations_client.list_accounts().
ListedAccounts ==
    << [Id |-> "111", Name |-> <<"Eng">>], [Id |-> "222", Name |-> <<"Ops">>] >>

\* The caller ARNs of the model, of the shapes sts answers: the ARN of a root
\* user, which has no "/", and the ARN of an assumed role, which has two.  No
\* path segment of such an ARN is empty.
CallerArns ==
    { <<"arn:aws:iam::1:root">>,
      <<"arn:aws:sts::1:assumed-role", "/", "Admin", "/", "bob">> }

IdentityOutcomes == {IdentityFailed} \cup {IdentityOk(arn) : arn \in CallerArns}

Credentials ==
    [AccessKeyId |-> "ASIAKEY", SecretAccessKey |-> "SECRET", SessionToken |-> "TOKEN"]

CredentialValues == {"ASIAKEY", "SECRET", "TOKEN"}

\* What the multi-select picker can return: distinct entries in any order.
PickerSelections ==
    {sel \in UNION {[1..n -> ActionNames] : n \in 0..MaxPicked} :
        \A i, j \in 1..Len(sel) : i # j => sel[i] # sel[j]}

\* What the user can type at the profile-name prompt.
TypedInputs == {<<>>, <<"q">>}

-----------------------------------------------------------------------------
(* The state machine of main *)

Init ==
    /\ args \in ArgsSet
    /\ config \in ConfigSet
    /\ file \in FileSet
    /\ pc = "start"
    /\ err = None
    /\ source_profile = NoneText
    /\ organizations_profile = NoneText
    /\ account_choices = <<>>
    /\ account = NoAccount
    /\ role_name = None
    /\ role_arn = <<>>
    /\ url = <<>>
    /\ actions = <<>>
    /\ log = <<>>

\* An exception leaves main: nothing after the raising statement runs.
Raise(exception) ==
    /\ pc' = "error"
    /\ err' = exception

\* Lines 138-143: the profiles, the two boto3 sessions and their clients.
\* boto3.Session raises when the named profile is not configured.
MainSetup ==
    /\ pc = "start"
    /\ LET sp == IF TruthyText(args.source_profile) THEN args.source_profile
                 ELSE DictGet(config, "source_profile", <<"default">>)
           op == IF TruthyText(args.organizations_profile)
                 THEN args.organizations_profile
                 ELSE DictGet(config, "organizations_profile", sp)
       IN  \E found \in BOOLEAN :
             /\ source_profile' = sp
             /\ organizations_profile' = IF found THEN op ELSE NoneText
             /\ IF found THEN pc' = "accounts" /\ err' = err
                ELSE Raise("ProfileNotFound")
    /\ UNCHANGED <<args, config, file, account_choices, account, role_name,
                   role_arn, url, actions, log>>

\* Lines 145-147: generate_account_choices, one list_accounts call.
ListAccounts ==
    /\ pc = "accounts"
    /\ \E ok \in BOOLEAN :
         /\ log' = Append(log, Call("main", "organizations.list_accounts", ok, <<>>, EmptyDict))
         /\ IF ok
            THEN /\ account_choices' =
                       generate_account_choices(
                           DictGet(config, "account_display_names", EmptyDict),
                           ListedAccounts)
                 /\ pc' = "choose_account"
                 /\ err' = err
            ELSE /\ Raise("ClientError")
                 /\ UNCHANGED account_choices
    /\ UNCHANGED <<args, config, file, source_profile, organizations_profile,
                   account, role_name, role_arn, url, actions>>

\* Lines 148-150: choose_account.
ChooseAccount ==
    /\ pc = "choose_account"
    /\ \E reply \in {<<>>} \cup {<<account_choices[i][1]>> : i \in 1..Len(account_choices)} :
         LET r == choose_account(account_choices, args.account_id, reply)
         IN  /\ log' = IF r.prompted
                       THEN Append(log, Call("main", "picker", reply # <<>>,
                                            IF reply = <<>> THEN <<>> ELSE reply[1],
                                            EmptyDict))
                       ELSE log
             /\ account' = r.account
             /\ IF r.raised # None THEN Raise(r.raised)
                ELSE pc' = "choose_role_name" /\ err' = err
    /\ UNCHANGED <<args, config, file, source_profile, organizations_profile,
                   account_choices, role_name, role_arn, url, actions>>

\* Lines 151-157: choose_role_name, then the role ARN and the URL.
ChooseRoleName ==
    /\ pc = "choose_role_name"
    /\ LET role_map == DictGet(config, "roles", EmptyDict)
       IN  \E reply \in {<<>>} \cup {<<c>> : c \in Range(RoleCandidates(role_map, account.Id))} :
             LET r == choose_role_name(role_map, account.Id, args, reply)
             IN  /\ log' = IF r.prompted
                           THEN Append(log, Call("main", "picker", reply # <<>>, r.shown, EmptyDict))
                           ELSE log
                 /\ role_name' = r.role
                 /\ IF r.raised # None
                    THEN /\ Raise(r.raised)
                         /\ UNCHANGED <<role_arn, url>>
                    ELSE /\ role_arn' = generate_role_arn(account.Id, r.role)
                         /\ url' = generate_url(r.role, account.Id, account.DisplayName)
                         /\ pc' = "choose_actions"
                         /\ err' = err
    /\ UNCHANGED <<args, config, file, source_profile, organizations_profile,
                   account_choices, account, actions>>

\* Lines 158-161: choose_actions, and the check that something was chosen.
ChooseActions ==
    /\ pc = "choose_actions"
    /\ \E reply \in PickerSelections :
         LET r == choose_actions(args, reply)
         IN  /\ log' = IF r.prompted
                       THEN Append(log, Call("main", "picker", TRUE, reply, EmptyDict))
                       ELSE log
             /\ actions' = r.actions
             /\ IF ActionsEmpty(r.actions) THEN Raise("Exception")
                ELSE pc' = "assume" /\ err' = err
    /\ UNCHANGED <<args, config, file, source_profile, organizations_profile,
                   account_choices, account, role_name, role_arn, url>>

\* A block of main whose action was not requested.
Skip(block) ==
    /\ pc = block
    /\ block \notin Range(actions)
    /\ pc' = NextBlock(block)
    /\ UNCHANGED <<args, config, file, err, source_profile, organizations_profile,
                   account_choices, account, role_name, role_arn, url, actions, log>>

SkipBlock == \E block \in ActionNames : Skip(block)

\* Lines 162-173: the assume action.
DoAssume ==
    /\ pc = "assume"
    /\ "assume" \in Range(actions)
    /\ \E identity \in IdentityOutcomes, assumed \in BOOLEAN :
         LET sn == generate_session_name(identity, config)
             kwargs == AssumeRoleKwargs(role_arn, sn.name, DurationHours(args, config),
                                        MainExternalId(args))
             commands == CredentialCommands(Credentials)
             looked == SessionNameEffects("assume", sn, identity)
             called == looked \o <<Call("assume", "sts.assume_role", assumed, <<>>, kwargs)>>
         IN  IF sn.raised # None
             THEN /\ log' = log \o looked
                  /\ Raise(sn.raised)
             ELSE IF assumed
             THEN /\ log' = log \o called
                              \o [i \in 1..Len(commands) |-> cmd("assume", commands[i])]
                              \o <<msg("assume", Quoted(role_arn) \o <<" from ">>
                                       \o Quoted(account.DisplayName) \o <<" assumed.">>)>>
                  /\ pc' = NextBlock("assume")
                  /\ err' = err
             ELSE /\ log' = log \o called
                  /\ Raise("ClientError")
    /\ UNCHANGED <<args, config, file, source_profile, organizations_profile,
                   account_choices, account, role_name, role_arn, url, actions>>

\* Lines 174-176: the browser action.
DoBrowser ==
    /\ pc = "browser"
    /\ "browser" \in Range(actions)
    /\ log' = log \o <<msg("browser", <<"opening browser to ">> \o Quoted(url)),
                        Call("browser", "webbrowser.open", TRUE, url, EmptyDict)>>
    /\ pc' = NextBlock("browser")
    /\ UNCHANGED <<args, config, file, err, source_profile, organizations_profile,
                   account_choices, account, role_name, role_arn, url, actions>>

\* Lines 177-190: the save action.
DoSave ==
    /\ pc = "save"
    /\ "save" \in Range(actions)
    /\ \E identity \in IdentityOutcomes, typed \in TypedInputs :
         LET sn == generate_session_name(identity, config)
             looked == SaveSessionEffects(sn, identity)
             default == generate_save_profile_name(account.DisplayName, role_name)
             chosen == choose_save_profile_name(args, default, typed)
             saved == save_profile(file, source_profile, role_arn, sn.name, chosen.name)
             before == looked
                 \o <<msg("save", <<"saving role assume to an AWS profile">>),
                      msg("save", <<"Source profile: ">> \o source_profile),
                      msg("save", <<"Account name: ">> \o account.DisplayName),
                      msg("save", <<"Role ARN: ">> \o role_arn),
                      msg("save", <<"Role Session Name: ">> \o sn.name)>>
                 \o (IF chosen.prompted
                     THEN <<Effect("save", "stderr", TRUE,
                                   <<"Enter the profile name to save [">> \o default
                                       \o <<"]: ">>, "", EmptyDict),
                            Call("save", "stdin", TRUE, typed, EmptyDict)>>
                     ELSE <<>>)
                 \o <<msg("save", <<"Profile Name: ">> \o chosen.name),
                      Call("save", "file.read", TRUE, <<>>, file)>>
         IN  IF sn.raised # None
             THEN /\ log' = log \o looked
                  /\ Raise(sn.raised)
                  /\ file' = file
             ELSE IF saved.raised # None
             THEN /\ log' = log \o before
                  /\ Raise(saved.raised)
                  /\ file' = saved.file
             ELSE /\ log' = log \o before
                         \o <<Call("save", "file.write", TRUE, SectionName(chosen.name),
                                   saved.file[SectionName(chosen.name)]),
                              msg("save", <<"Profile saved. Use --profile ">>
                                             \o chosen.name)>>
                  /\ file' = saved.file
                  /\ pc' = NextBlock("save")
                  /\ err' = err
    /\ UNCHANGED <<args, config, source_profile, organizations_profile,
                   account_choices, account, role_name, role_arn, url, actions>>

\* Lines 191-192: the url action.
DoUrl ==
    /\ pc = "url"
    /\ "url" \in Range(actions)
    /\ log' = Append(log, echo("url", Quoted(url)))
    /\ pc' = NextBlock("url")
    /\ UNCHANGED <<args, config, file, err, source_profile, organizations_profile,
                   account_choices, account, role_name, role_arn, url, actions>>

\* Lines 193-194: the role action.
DoRole ==
    /\ pc = "role"
    /\ "role" \in Range(actions)
    /\ log' = Append(log, echo("role", Quoted(role_arn)))
    /\ pc' = NextBlock("role")
    /\ UNCHANGED <<args, config, file, err, source_profile, organizations_profile,
                   account_choices, account, role_name, role_arn, url, actions>>

\* Lines 195-196: the terminating print() and the return.
Finish ==
    /\ pc = "finish"
    /\ log' = Append(log, Effect("main", "stdout", TRUE, <<>>, "\n", EmptyDict))
    /\ pc' = "done"
    /\ UNCHANGED <<args, config, file, err, source_profile, organizations_profile,
                   account_choices, account, role_name, role_arn, url, actions>>

Next ==
    \/ MainSetup
    \/ ListAccounts
    \/ ChooseAccount
    \/ ChooseRoleName
    \/ ChooseActions
    \/ SkipBlock
    \/ DoAssume
    \/ DoBrowser
    \/ DoSave
    \/ DoUrl
    \/ DoRole
    \/ Finish

Spec == Init /\ [][Next]_vars

-----------------------------------------------------------------------------
(* Reading the effects *)

Where(kind) == {i \in 1..Len(log) : log[i].kind = kind}

CountOf(kind) == Cardinality(Where(kind))

\* What was printed on standard output, in order.
Stdout == SelectSeq(log, LAMBDA e : e.kind = "stdout")

\* The effects of the dispatched actions, in order.
DispatchEffects == SelectSeq(log, LAMBDA e : e.by \in ActionNames)

\* The empty print() that ends a successful invocation.
IsTerminator(e) == e.kind = "stdout" /\ e.by = "main" /\ e.text = <<>> /\ e.end = "\n"

Dispatching == ActionNames \cup {"finish", "done"}

-----------------------------------------------------------------------------
(* C1: the dispatch order *)

C1_Order == <<"assume", "browser", "save", "url", "role">>

C1_Rank(action) == CHOOSE i \in 1..Len(C1_Order) : C1_Order[i] = action

\* The standard output of a successful invocation, from the set of the
\* requested actions alone.
C1_StdoutOf(requested) ==
    (IF "assume" \in requested
     THEN [i \in 1..3 |-> cmd("assume", CredentialCommands(Credentials)[i])]
     ELSE <<>>)
    \o (IF "url" \in requested THEN <<echo("url", Quoted(url))>> ELSE <<>>)
    \o (IF "role" \in requested THEN <<echo("role", Quoted(role_arn))>> ELSE <<>>)
    \o <<Effect("main", "stdout", TRUE, <<>>, "\n", EmptyDict)>>

\* C1: whatever the order of the request, the effects of the actions occur
\* in the order assume, browser, save, url, role; only requested actions
\* have effects; and when main returns, every requested action has acted and
\* the output is the one the set of requested actions determines.
C1_FixedDispatchOrder ==
    LET D == DispatchEffects
    IN  /\ \A i \in 1..(Len(D) - 1) : C1_Rank(D[i].by) <= C1_Rank(D[i + 1].by)
        /\ \A i \in 1..Len(D) : D[i].by \in Range(actions)
        /\ pc = "done" =>
              /\ \A a \in Range(actions) : \E i \in 1..Len(D) : D[i].by = a
              /\ Stdout = C1_StdoutOf(Range(actions))

\* The picker returned url before assume, and assume still acted first.
C1_Witness ==
    /\ pc = "done"
    /\ actions = <<"url", "assume">>
    /\ Stdout[1].by = "assume"
    /\ Stdout[4].by = "url"

-----------------------------------------------------------------------------
(* C2: the external id *)

\* C2: the assume-role request main issues carries the --external-id value
\* when it is not empty, and no external id when it is empty.
C2_ExternalIdPassed ==
    \A i \in Where("sts.assume_role") :
        IF Truthy(args.external_id)
        THEN /\ "ExternalId" \in DOMAIN log[i].req
             /\ log[i].req["ExternalId"].str = args.external_id
        ELSE "ExternalId" \notin DOMAIN log[i].req

-----------------------------------------------------------------------------
(* C3: the role resolution *)

\* The candidate list as the claim states it.
C3_Candidates ==
    LET role_map == DictGet(config, "roles", EmptyDict)
    IN  IF IntKey(IntOf(account.Id)) \in DOMAIN role_map
        THEN role_map[IntKey(IntOf(account.Id))]
        ELSE IF StrKey("_") \in DOMAIN role_map
        THEN role_map[StrKey("_")]
        ELSE <<"OrganizationAccountAccessRole">>

\* A step of choose_role_name, and whether it ran the picker.
C3_Step == pc = "choose_role_name" /\ pc' # pc
C3_Prompted == Len(log') = Len(log) + 1 /\ log'[Len(log')].kind = "picker"
C3_Silent == log' = log

\* The example of the claim: roles = {"_": ["A"], 111: ["B", "C"]}.
C3_Example ==
    (config = ConfigRoles /\ ~Truthy(args.role_name)) =>
        /\ account.Id = "111" => C3_Prompted /\ log'[Len(log')].text = <<"B", "C">>
        /\ account.Id = "222" => C3_Silent /\ role_name' = "A" /\ pc' = "choose_actions"

\* C3 as stated: the picker runs only if there is more than one candidate.
C3_PickerOnlyForSeveral ==
    [][C3_Step =>
        IF Truthy(args.role_name)
        THEN C3_Silent /\ role_name' = args.role_name /\ pc' = "choose_actions"
        ELSE /\ Len(C3_Candidates) = 1 =>
                    C3_Silent /\ role_name' = C3_Candidates[1] /\ pc' = "choose_actions"
             /\ C3_Prompted <=> Len(C3_Candidates) > 1
             /\ C3_Prompted => log'[Len(log')].text = Sorted(C3_Candidates)
             /\ C3_Example]_vars

\* C3 as amended: an explicit (non-empty) role name is returned verbatim
\* without the picker; otherwise the candidates are roles[account_id], else
\* roles["_"], else the default; exactly one candidate is returned without
\* the picker; the picker runs over the sorted candidates whenever their
\* number is not one, also when there is none, and then its choice is the
\* role, or choose_role_name raises when the picker returns nothing.
C3_RoleResolution ==
    [][C3_Step =>
        IF Truthy(args.role_name)
        THEN C3_Silent /\ role_name' = args.role_name /\ pc' = "choose_actions"
        ELSE /\ Len(C3_Candidates) = 1 =>
                    C3_Silent /\ role_name' = C3_Candidates[1] /\ pc' = "choose_actions"
             /\ C3_Prompted <=> Len(C3_Candidates) # 1
             /\ C3_Prompted =>
                    /\ log'[Len(log')].text = Sorted(C3_Candidates)
                    /\ \/ pc' = "choose_actions" /\ role_name' \in Range(C3_Candidates)
                       \/ pc' = "error" /\ err' = "IndexError" /\ ~log'[Len(log')].ok
                    /\ C3_Candidates = <<>> => pc' = "error"
             /\ C3_Example]_vars

\* Account 111 was resolved by the picker over ["B", "C"].
C3_Witness ==
    /\ pc = "choose_actions"
    /\ config = ConfigRoles
    /\ account.Id = "111"
    /\ role_name = "C"
    /\ log[Len(log)].kind = "picker"
    /\ log[Len(log)].text = <<"B", "C">>

-----------------------------------------------------------------------------
(* C4: the session name *)

C4_Configured == DictGet(config, "role_session_name", NoneText)

\* The last path segment of an ARN, after its final "/"; none when the ARN
\* has no "/" or nothing follows the final one.
C4_Segment(arn) ==
    LET slashes == {i \in 1..Len(arn) : arn[i] = "/"}
    IN  IF slashes = {} THEN <<>>
        ELSE LET last == CHOOSE i \in slashes : \A j \in slashes : j <= i
             IN  SubSeq(arn, last + 1, Len(arn))

\* The name the chain gives after the lookup recorded in `e`.
C4_Derived(e) ==
    IF e.ok /\ C4_Segment(e.text) # <<>> THEN C4_Segment(e.text) ELSE <<"awslaunch">>

\* The name a block used, at position i of the log, given where its lookup
\* would be recorded.
C4_NameIs(name, by, at) ==
    IF TruthyText(C4_Configured)
    THEN name = C4_Configured
    ELSE /\ at >= 1
         /\ log[at].kind = "sts.get_caller_identity"
         /\ log[at].by = by
         /\ name = C4_Derived(log[at])

\* C4: a configured non-empty role_session_name is the name and no lookup is
\* made; otherwise the name is the last path segment of the caller ARN, or
\* "awslaunch" when the lookup fails or the ARN has no such segment; and a
\* lookup, failed or not, is always followed by the rest of its block.
C4_SessionNameChain ==
    /\ \A i \in Where("sts.get_caller_identity") :
          /\ ~TruthyText(C4_Configured)
          /\ i < Len(log)
          /\ log[i + 1].by = log[i].by
    /\ \A i \in Where("sts.assume_role") :
          C4_NameIs(log[i].req["RoleSessionName"].text, "assume", i - 1)
    /\ \A i \in 1..Len(log) :
          (log[i].kind = "stderr" /\ log[i].text # <<>>
              /\ log[i].text[1] = "Role Session Name: ") =>
             C4_NameIs(Tail(log[i].text), "save", i - 5)

\* The lookup of assume failed and the one of save answered an ARN ending in
\* "/bob"; main went on to its end.
C4_Witness ==
    /\ pc = "done"
    /\ \E i \in Where("sts.get_caller_identity") :
          ~log[i].ok /\ log[i].by = "assume"
              /\ log[i + 1].req["RoleSessionName"].text = <<"awslaunch">>
    /\ \E i \in Where("sts.get_caller_identity") :
          log[i].ok /\ log[i].by = "save" /\ log[i].text[Len(log[i].text)] = "bob"
              /\ log[i + 5].text = <<"Role Session Name: ", "bob">>

-----------------------------------------------------------------------------
(* C5: the empty action set *)

ActionEffectKinds ==
    {"stdout", "sts.get_caller_identity", "sts.assume_role", "webbrowser.open",
     "file.read", "file.write"}

\* C5: with an empty resolved action set main raises before any effect of an
\* action: it never reaches the dispatch, nothing is on standard output, no
\* identity lookup or assume-role call is made, no browser is opened and the
\* file is neither read nor written.
C5_EmptyActionSetAborts ==
    actions = <<>> =>
        /\ pc \notin Dispatching
        /\ \A i \in 1..Len(log) : log[i].kind \notin ActionEffectKinds
        /\ file \in FileSet
        /\ (pc = "error" /\ err = "Exception") =>
              log # <<>> /\ log[Len(log)].kind = "picker" /\ log[Len(log)].text = <<>>

\* No flag was given, the picker returned nothing, and main raised.
C5_Witness ==
    /\ pc = "error"
    /\ err = "Exception"
    /\ actions = <<>>
    /\ PassedActions(args) = <<>>
    /\ log[Len(log)].kind = "picker"

-----------------------------------------------------------------------------
(* C6, C10: save_profile *)

\* The profile name save_profile was called with, from the message main
\* prints right before the call; i is the position of the file read.
SavedNameAt(i) == Tail(log[i - 1].text)

\* C6: when the file already has the section "profile <profile_name>",
\* save_profile raises, the file is not opened for writing, and its content
\* stays what was read.
C6_ExistingSectionRejected ==
    \A i \in Where("file.read") :
        SectionName(SavedNameAt(i)) \in DOMAIN log[i].req =>
            /\ pc = "error"
            /\ err = "DuplicateSectionError"
            /\ Where("file.write") = {}
            /\ file = log[i].req
            /\ i = Len(log)

\* save ran for a profile name whose section the file already had.
C6_Witness ==
    /\ pc = "error"
    /\ \E i \in Where("file.read") :
          /\ SavedNameAt(i) = <<"q">>
          /\ SectionName(<<"q">>) \in DOMAIN log[i].req
          /\ file = FilePQ

\* The section save_profile is to write, as the claim states it.
C10_NewSection(before, i) ==
    LET copied == before[SectionName(source_profile)]
    IN  [k \in DOMAIN copied \cup {"source_profile", "role_session_name", "role_arn"} |->
            CASE k = "source_profile" -> source_profile
              [] k = "role_arn" -> role_arn
              [] k = "role_session_name" -> Tail(log[i - IF log[i - 2].kind = "stdin" THEN 4 ELSE 2].text)
              [] OTHER -> copied[k]]

\* C10: when the new section does not exist and the source section does,
\* the file gains the new section (the source's keys, with source_profile,
\* role_session_name and role_arn set) and keeps every other section as it
\* was; when the source section does not exist, save_profile raises and the
\* file is not rewritten.
C10_SaveProfileFrame ==
    \A i \in Where("file.read") :
        LET before == log[i].req
            section == SectionName(SavedNameAt(i))
            source == SectionName(source_profile)
        IN  /\ (section \notin DOMAIN before /\ source \in DOMAIN before) =>
                  /\ pc # "error"
                  /\ DOMAIN file = DOMAIN before \cup {section}
                  /\ \A sec \in DOMAIN before : file[sec] = before[sec]
                  /\ file[section] = C10_NewSection(before, i)
                  /\ log[i + 1].kind = "file.write"
            /\ source \notin DOMAIN before =>
                  /\ pc = "error"
                  /\ file = before
                  /\ Where("file.write") = {}

\* The part of C10 about a successful save, alone.
C10_SuccessPart ==
    \A i \in Where("file.read") :
        LET before == log[i].req
            section == SectionName(SavedNameAt(i))
            source == SectionName(source_profile)
        IN  (section \notin DOMAIN before /\ source \in DOMAIN before) =>
                  /\ pc # "error"
                  /\ DOMAIN file = DOMAIN before \cup {section}
                  /\ \A sec \in DOMAIN before : file[sec] = before[sec]
                  /\ file[section] = C10_NewSection(before, i)
                  /\ log[i + 1].kind = "file.write"

-----------------------------------------------------------------------------
(* C7: the credentials *)

ExportPrefixes ==
    {"export AWS_ACCESS_KEY_ID=\"", "export AWS_SECRET_ACCESS_KEY=\"",
     "export AWS_SESSION_TOKEN=\""}

\* The credential values among the tokens of a text.
CredentialsIn(text) == Range(text) \cap CredentialValues

\* C7: no session credential is ever in the file; save makes no assume-role
\* call; the section save writes has no key but those of the source profile
\* and source_profile, role_session_name, role_arn; and the credentials
\* assume obtained appear only in its three export statements on standard
\* output.
C7_CredentialsNeverSaved ==
    /\ \A sec \in DOMAIN file : \A k \in DOMAIN file[sec] :
          CredentialsIn(file[sec][k]) = {}
    /\ \A i \in Where("sts.assume_role") : log[i].by = "assume"
    /\ \A i \in Where("file.write") :
          LET before == log[i - 1].req
              source == SectionName(source_profile)
          IN  DOMAIN log[i].req \subseteq
                  (IF source \in DOMAIN before THEN DOMAIN before[source] ELSE {})
                      \cup {"source_profile", "role_session_name", "role_arn"}
    /\ \A i \in 1..Len(log) :
          (log[i].kind \notin {"picker", "file.read", "file.write"}
              /\ CredentialsIn(log[i].text) # {}) =>
             /\ log[i].kind = "stdout"
             /\ log[i].by = "assume"
             /\ log[i].end = CMD_END
             /\ log[i].text[1] \in ExportPrefixes

\* assume exported the credentials and save then wrote a profile.
C7_Witness ==
    /\ pc = "done"
    /\ Where("sts.assume_role") # {}
    /\ Where("file.write") # {}
    /\ \E i \in Where("stdout") : CredentialsIn(log[i].text) = {"TOKEN"}
    /\ file # FilePQ /\ SectionName(<<"p">>) \in DOMAIN file

-----------------------------------------------------------------------------
(* C8: the output protocol *)

\* The statements an action writes on standard output.
StatementsBy(action) ==
    Cardinality({i \in Where("stdout") : log[i].by = action})

\* C8: every statement of an action ends with ";"; the terminating print
\* happens once, last, and only when main returns, after the statements of
\* every requested action; when an action fails, what earlier actions wrote
\* stays and the terminating print never happens.
C8_OutputProtocol ==
    /\ \A i \in Where("stdout") :
          \/ log[i].by \in ActionNames /\ log[i].end = ";" /\ log[i].text # <<>>
          \/ IsTerminator(log[i]) /\ i = Len(log) /\ pc = "done"
    /\ pc = "done" =>
          /\ log # <<>> /\ IsTerminator(log[Len(log)])
          /\ StatementsBy("assume") = (IF "assume" \in Range(actions) THEN 3 ELSE 0)
          /\ StatementsBy("url") = (IF "url" \in Range(actions) THEN 1 ELSE 0)
          /\ StatementsBy("role") = (IF "role" \in Range(actions) THEN 1 ELSE 0)
    /\ (pc = "error" /\ err \in {"DuplicateSectionError", "KeyError"}
            /\ "assume" \in Range(actions)) =>
          /\ Len(Stdout) = 3
          /\ \A i \in 1..3 : Stdout[i].by = "assume" /\ Stdout[i].end = ";"

\* assume wrote its three exports, then save failed: no terminating print.
C8_Witness ==
    /\ pc = "error"
    /\ err = "KeyError"
    /\ Len(Stdout) = 3
    /\ Stdout[3].text[1] = "export AWS_SESSION_TOKEN=\""

-----------------------------------------------------------------------------
(* C9: the calls of one invocation *)

LookupsBy(block) ==
    Cardinality({i \in Where("sts.get_caller_identity") : log[i].by = block})

\* C9 as stated: at most one call of each kind, the identity lookup included.
C9_AtMostOneOfEach ==
    /\ CountOf("organizations.list_accounts") <= 1
    /\ CountOf("sts.get_caller_identity") <= 1
    /\ CountOf("sts.assume_role") <= 1
    /\ CountOf("file.read") <= 1
    /\ CountOf("file.write") <= 1

\* C9 as amended: at most one organization listing, one assume-role call and
\* one read-modify-write of the file; the identity lookup is made at most
\* once by assume and at most once by save, so at most twice.
C9_CallBudget ==
    /\ CountOf("organizations.list_accounts") <= 1
    /\ CountOf("sts.assume_role") <= 1
    /\ CountOf("file.read") <= 1
    /\ CountOf("file.write") <= 1
    /\ \A i \in Where("file.write") : log[i - 1].kind = "file.read"
    /\ \A i \in Where("sts.get_caller_identity") : log[i].by \in {"assume", "save"}
    /\ LookupsBy("assume") <= 1
    /\ LookupsBy("save") <= 1

\* assume and save both ran with no role_session_name configured: two
\* identity lookups.
C9_Witness ==
    /\ pc = "done"
    /\ LookupsBy("assume") = 1
    /\ LookupsBy("save") = 1
    /\ CountOf("sts.assume_role") = 1
    /\ CountOf("file.write") = 1

=============================================================================
